---- MODULE Spec2Model ----
(***************************************************************************)
(* A model of Solver::JFNK (src/include/Solver/JFNK.h) and of              *)
(* DenseInverse::backSubstituteUpperTriangular (src/unnamed/part_000).     *)
(*                                                                         *)
(* Numbers.  A `real` is an integer counting fixed-point units of 1/Unit,  *)
(* or one of the three IEEE specials PosInf, NegInf, NaN.  Unit is chosen  *)
(* so that every step scale the line searches produce (maxAlpha*i/L and    *)
(* the bisection midpoints) is a whole number of units; arithmetic is then *)
(* exact (no rounding is modelled).  A residual r = normL2(v)/n is kept as *)
(* (n*r)^2 = v[0]^2 + ... + v[n-1]^2: within one instance n is fixed, so   *)
(* this keeps the order of residuals, which is all the code uses           *)
(* (<, >, <=, fmin, isfinite, the NaN test).  stopEpsilon is kept the same *)
(* way.                                                                    *)
(***************************************************************************)
EXTENDS Integers, Sequences, FiniteSets, TLC

VARIABLES
  \* JFNK: construction parameters and public configuration fields
  n, F, solver, lineSearch, maxAlpha, lineSearchMaxIter, stopEpsilon, maxiter,
  stopCallback,
  \* JFNK: the caller's iterate, the working buffer and the protected fields
  x, dx, residual, alpha, iter,
  \* position of the caller inside solve() / lineSearch_bisect() / backSubstitute
  pc,
  \* observations on the run (history, not program state)
  xPrev, nanSel, nTotal, nUpd, nCb, cbRet, exit, prevExit, snap, solveCalls,
  \* lineSearch_bisect's locals, and the residuals the line has shown so far
  br, bi, rho, seen,
  \* backSubstituteUpperTriangular's arguments m, a, b (n and x are shared)
  m, a, b

cfgVars == <<n, F, solver, lineSearch, maxAlpha, lineSearchMaxIter, stopEpsilon,
             maxiter, stopCallback>>
fldVars == <<x, dx, residual, alpha, iter>>
obsVars == <<xPrev, nanSel, nTotal, nUpd, nCb, cbRet, exit, prevExit, snap, solveCalls>>
bisVars == <<br, bi, rho, seen>>
subVars == <<m, a, b>>
vars == <<cfgVars, fldVars, pc, obsVars, bisVars, subVars>>

-----------------------------------------------------------------------------
(* Bounds of the model *)

MaxN == 2
MaxLineSearchIter == 2
MaxMaxiter == 2
MaxUpdates == 3
MaxSolveCalls == 2
MaxM == 3

-----------------------------------------------------------------------------
(* Numbers *)

RECURSIVE Pow2(_)
Pow2(k) == IF k = 0 THEN 1 ELSE 2 * Pow2(k - 1)

RECURSIVE Fact(_)
Fact(k) == IF k = 0 THEN 1 ELSE k * Fact(k - 1)

\* one whole; a multiple of 2^L and of L for every L in 1..MaxLineSearchIter
Unit == Pow2(MaxLineSearchIter) * Fact(MaxLineSearchIter)

RealMax == 1000000000
PosInf == RealMax + 1
NegInf == - (RealMax + 1)
NaN == RealMax + 2

IsNaN(v) == v = NaN
IsInf(v) == v = PosInf \/ v = NegInf
isfinite(v) == ~IsNaN(v) /\ ~IsInf(v)

\* IEEE comparisons: every comparison with a NaN is false
Lt(p, q) == ~IsNaN(p) /\ ~IsNaN(q) /\ p < q
Gt(p, q) == Lt(q, p)
Le(p, q) == ~IsNaN(p) /\ ~IsNaN(q) /\ p <= q

fmin(p, q) == IF IsNaN(p) THEN q ELSE IF IsNaN(q) THEN p ELSE IF p < q THEN p ELSE q

\* product of two finite fixed-point numbers
Mul(p, q) == (p * q) \div Unit

Idx(k) == 0 .. (k - 1)

-----------------------------------------------------------------------------
(* The problems and solvers a caller may hand to the constructor *)

RootPat == <<3, -5, 2, 7>>
ConstPat == <<2, -1, 1, 3>>
StartPat == <<-1, 4, 6, 2>>
StepPat == <<-2, 1, 3, 1>>

Vec(k, pat, s) == [i \in Idx(k) |-> s * pat[i + 1] * Unit]

\* F(x)[0] is the special value wherever x[0] >= Thr (for a problem with one)
Thr == Unit

Problems(k) ==
  [base : {"lin"}, c : {Vec(k, RootPat, 1)}, bad : {"none", "nan", "inf"}]
    \cup [base : {"const"}, c : {Vec(k, ConstPat, 1)}, bad : {"none"}]

\* F(y, x): the value y the caller's function writes for the point xp
EvalF(Fk, k, xp) ==
  [i \in Idx(k) |->
     IF Fk.bad # "none" /\ i = 0 /\ xp[0] >= Thr
       THEN (IF Fk.bad = "nan" THEN NaN ELSE PosInf)
       ELSE IF Fk.base = "lin" THEN xp[i] - Fk.c[i] ELSE Fk.c[i]]

\* linearSolver->solve(): the dx it leaves in the step buffer, given F_of_x.
\* "exact" is the identity-Jacobian stand-in (dx = F(x)); "any" writes some
\* finite vector.
linearSolverSolve(sv, k, F_of_x) ==
  IF sv = "exact" THEN {F_of_x}
  ELSE {Vec(k, StepPat, s) : s \in {-1, 1}}

-----------------------------------------------------------------------------
(* JFNK's residual and line searches *)

RECURSIVE SumSq(_, _)
SumSq(k, v) == IF k = 0 THEN 0 ELSE v[k - 1] * v[k - 1] + SumSq(k - 1, v)

\* Vector<real>::normL2, squared
normL2Sq(k, v) ==
  IF \E i \in Idx(k) : IsNaN(v[i]) THEN NaN
  ELSE IF \E i \in Idx(k) : IsInf(v[i]) THEN PosInf
  ELSE SumSq(k, v)

\* normL2(n, x) / (real)n, kept as its square times n^2
calcResidual(k, v) == normL2Sq(k, v)

residualAtAlpha(k, Fk, xv, dxv, al) ==
  LET x_plus_dx == [i \in Idx(k) |-> xv[i] - Mul(dxv[i], al)]
      F_of_x_plus_dx == EvalF(Fk, k, x_plus_dx)
      stepResidual == calcResidual(k, F_of_x_plus_dx)
  IN IF IsNaN(stepResidual) THEN RealMax ELSE stepResidual

lineSearch_none(k, Fk, xv, dxv, mA) ==
  [residual |-> residualAtAlpha(k, Fk, xv, dxv, mA), alpha |-> mA]

\* one pass of the loop body of lineSearch_linear; L >= 1
LinearStep(k, Fk, xv, dxv, mA, L, i, acc) ==
  LET stepAlpha == (mA * i) \div L
      stepResidual == residualAtAlpha(k, Fk, xv, dxv, stepAlpha)
  IN IF Lt(stepResidual, acc.residual)
       THEN [residual |-> stepResidual, alpha |-> stepAlpha]
       ELSE acc

RECURSIVE LinearLoop(_, _, _, _, _, _, _, _)
LinearLoop(k, Fk, xv, dxv, mA, L, i, acc) ==
  IF i <= L
    THEN LinearLoop(k, Fk, xv, dxv, mA, L, i + 1,
                    LinearStep(k, Fk, xv, dxv, mA, L, i, acc))
    ELSE acc

lineSearch_linear(k, Fk, xv, dxv, mA, L) ==
  LinearLoop(k, Fk, xv, dxv, mA, L, 0, [residual |-> RealMax, alpha |-> 0])

\* .5 * (alphaL + alphaR)
AlphaMid(bk) == (bk.alphaL + bk.alphaR) \div 2

BisectStart(mA, rL, rR) ==
  [alphaL |-> 0, alphaR |-> mA, residualL |-> rL, residualR |-> rR, brk |-> FALSE]

\* BisectStep with the last two branches moving the wrong endpoint
BisectStep_wrongSide(bk, residualMid) ==
  IF Gt(residualMid, bk.residualL) /\ Gt(residualMid, bk.residualR)
    THEN [bk EXCEPT !.brk = TRUE]
  ELSE IF Lt(residualMid, bk.residualL) /\ Lt(residualMid, bk.residualR)
    THEN IF Le(bk.residualL, bk.residualR)
           THEN [bk EXCEPT !.alphaR = AlphaMid(bk), !.residualR = residualMid]
           ELSE [bk EXCEPT !.alphaL = AlphaMid(bk), !.residualL = residualMid]
  ELSE IF Lt(residualMid, bk.residualL)
    THEN [bk EXCEPT !.alphaR = AlphaMid(bk), !.residualR = residualMid]
  ELSE [bk EXCEPT !.alphaL = AlphaMid(bk), !.residualL = residualMid]

\* one pass of the loop body of lineSearch_bisect, given the midpoint's residual
BisectStep(bk, residualMid) ==
  IF Gt(residualMid, bk.residualL) /\ Gt(residualMid, bk.residualR)
    THEN [bk EXCEPT !.brk = TRUE]
  ELSE IF Lt(residualMid, bk.residualL) /\ Lt(residualMid, bk.residualR)
    THEN IF Le(bk.residualL, bk.residualR)
           THEN [bk EXCEPT !.alphaR = AlphaMid(bk), !.residualR = residualMid]
           ELSE [bk EXCEPT !.alphaL = AlphaMid(bk), !.residualL = residualMid]
  ELSE IF Lt(residualMid, bk.residualL)
    THEN [bk EXCEPT !.alphaL = AlphaMid(bk), !.residualL = residualMid]
  ELSE [bk EXCEPT !.alphaR = AlphaMid(bk), !.residualR = residualMid]

\* BisectReturn with <= for <: a tie returns the left endpoint
BisectReturn_tieLeft(bk) ==
  [residual |-> fmin(bk.residualL, bk.residualR),
   alpha |-> IF Le(bk.residualL, bk.residualR) THEN bk.alphaL ELSE bk.alphaR]

\* the two statements after the loop: the recorded residual, the returned alpha
BisectReturn(bk) ==
  [residual |-> fmin(bk.residualL, bk.residualR),
   alpha |-> IF Lt(bk.residualL, bk.residualR) THEN bk.alphaL ELSE bk.alphaR]

RECURSIVE BisectLoop(_, _, _, _, _, _, _)
BisectLoop(k, Fk, xv, dxv, L, i, bk) ==
  IF i < L /\ ~bk.brk
    THEN BisectLoop(k, Fk, xv, dxv, L, i + 1,
                    BisectStep(bk, residualAtAlpha(k, Fk, xv, dxv, AlphaMid(bk))))
    ELSE bk

lineSearch_bisect(k, Fk, xv, dxv, mA, L) ==
  BisectReturn(BisectLoop(k, Fk, xv, dxv, L, 0,
                 BisectStart(mA, residualAtAlpha(k, Fk, xv, dxv, 0),
                                 residualAtAlpha(k, Fk, xv, dxv, mA))))

\* (this->*lineSearch)()
CallLineSearch(ls, k, Fk, xv, dxv, mA, L) ==
  CASE ls = "none" -> lineSearch_none(k, Fk, xv, dxv, mA)
    [] ls = "linear" -> lineSearch_linear(k, Fk, xv, dxv, mA, L)
    [] ls = "bisect" -> lineSearch_bisect(k, Fk, xv, dxv, mA, L)

-----------------------------------------------------------------------------
(* JFNK::update and JFNK::solve *)

\* StepX without the isfinite test
StepX_noFiniteTest(k, xv, dxv, al, res) ==
  IF al = 0 THEN xv
  ELSE [i \in Idx(k) |-> xv[i] - Mul(dxv[i], al)]

\* the tail of update(): the iterate it leaves
StepX(k, xv, dxv, al, res) ==
  IF al = 0 THEN xv
  ELSE IF ~isfinite(res) THEN xv
  ELSE [i \in Idx(k) |-> xv[i] - Mul(dxv[i], al)]

\* LoopCond with <= for <
LoopCond_offByOne(it, mi) == it <= mi

\* the loop condition of solve()
LoopCond(it, mi) == it < mi

\* CallbackInvoked with the test inverted
CallbackInvoked_inverted(cb) == ~cb

\* `stopCallback &&': the callback is invoked only when one is set
CallbackInvoked(cb) == cb

\* BreakReason without the stopEpsilon test
BreakReason_noEpsilonTest(al, res, eps) ==
  IF al = 0 THEN "alpha"
  ELSE IF ~isfinite(res) THEN "nonfinite"
  ELSE "none"

\* the three tests that follow the callback test in the loop body
BreakReason(al, res, eps) ==
  IF al = 0 THEN "alpha"
  ELSE IF ~isfinite(res) THEN "nonfinite"
  ELSE IF Lt(res, eps) THEN "converged"
  ELSE "none"

\* the whole of update(), shared by a direct call and by solve()
DoUpdate ==
  \E dxn \in linearSolverSolve(solver, n, EvalF(F, n, x)) :
    LET ls == CallLineSearch(lineSearch, n, F, x, dxn, maxAlpha, lineSearchMaxIter)
    IN /\ dx' = dxn
       /\ alpha' = ls.alpha
       /\ residual' = ls.residual
       /\ x' = StepX(n, x, dxn, ls.alpha, ls.residual)
       /\ xPrev' = x
       /\ nanSel' = IsNaN(calcResidual(n,
                      EvalF(F, n, [i \in Idx(n) |-> x[i] - Mul(dxn[i], ls.alpha)])))
       /\ nTotal' = nTotal + 1

\* the value of a variable the specification at hand does not use
Dummy == "unused"

Init ==
  /\ n \in 1 .. MaxN
  /\ F \in Problems(n)
  /\ solver \in (IF F.base = "lin" /\ F.bad = "none" THEN {"exact", "any"} ELSE {"any"})
  /\ lineSearch \in {"none", "linear", "bisect"}
  /\ maxAlpha \in {0, Unit}
  /\ lineSearchMaxIter = MaxLineSearchIter
  /\ stopEpsilon = 1
  /\ maxiter \in 0 .. MaxMaxiter
  /\ stopCallback \in BOOLEAN
  /\ x \in {Vec(n, StartPat, 0), Vec(n, RootPat, 1)}
  /\ dx = x
  /\ residual = 0
  /\ alpha = 0
  /\ iter = 0
  /\ pc = "idle"
  /\ xPrev = x
  /\ nanSel = FALSE
  /\ nTotal = 0
  /\ nUpd = 0
  /\ nCb = 0
  /\ cbRet = FALSE
  /\ exit = "none"
  /\ prevExit = "none"
  /\ snap = <<x, dx, residual, alpha, iter>>
  /\ solveCalls = 0
  /\ br = Dummy /\ bi = Dummy /\ rho = Dummy /\ seen = Dummy
  /\ m = Dummy /\ a = Dummy /\ b = Dummy

\* a direct call of update()
Update ==
  /\ pc = "idle"
  /\ nTotal < MaxUpdates
  /\ DoUpdate
  /\ UNCHANGED <<cfgVars, iter, pc, nUpd, nCb, cbRet, exit, prevExit, snap, solveCalls,
                 bisVars, subVars>>

\* solve() is entered
SolveCall ==
  /\ pc = "idle"
  /\ solveCalls < MaxSolveCalls
  /\ pc' = "loop"
  /\ nUpd' = 0
  /\ nCb' = 0
  /\ cbRet' = FALSE
  /\ prevExit' = exit
  /\ exit' = "running"
  /\ snap' = <<x, dx, residual, alpha, iter>>
  /\ solveCalls' = solveCalls + 1
  /\ UNCHANGED <<cfgVars, fldVars, xPrev, nanSel, nTotal, bisVars, subVars>>

\* the loop condition holds: update() is called
SolveUpdate ==
  /\ pc = "loop"
  /\ LoopCond(iter, maxiter)
  /\ nTotal < MaxUpdates
  /\ DoUpdate
  /\ pc' = "cb"
  /\ nUpd' = nUpd + 1
  /\ cbRet' = FALSE
  /\ UNCHANGED <<cfgVars, iter, nCb, exit, prevExit, snap, solveCalls, bisVars, subVars>>

\* the loop condition fails: solve() returns
SolveReturn ==
  /\ pc = "loop"
  /\ ~LoopCond(iter, maxiter)
  /\ pc' = "idle"
  /\ exit' = "maxiter"
  /\ UNCHANGED <<cfgVars, fldVars, xPrev, nanSel, nTotal, nUpd, nCb, cbRet, prevExit,
                 snap, solveCalls, bisVars, subVars>>

\* if (stopCallback && stopCallback()) break;
SolveCallback ==
  /\ pc = "cb"
  /\ \E r \in (IF CallbackInvoked(stopCallback) THEN BOOLEAN ELSE {FALSE}) :
       /\ nCb' = IF CallbackInvoked(stopCallback) THEN nCb + 1 ELSE nCb
       /\ cbRet' = r
       /\ pc' = IF r THEN "idle" ELSE "chk"
       /\ exit' = IF r THEN "callback" ELSE exit
  /\ UNCHANGED <<cfgVars, fldVars, xPrev, nanSel, nTotal, nUpd, prevExit, snap,
                 solveCalls, bisVars, subVars>>

\* the alpha / isfinite / stopEpsilon tests, then ++iter
SolveCheck ==
  /\ pc = "chk"
  /\ LET why == BreakReason(alpha, residual, stopEpsilon)
     IN /\ pc' = IF why # "none" THEN "idle" ELSE "loop"
        /\ exit' = IF why # "none" THEN why ELSE exit
        /\ iter' = IF why # "none" THEN iter ELSE iter + 1
  /\ UNCHANGED <<cfgVars, x, dx, residual, alpha, xPrev, nanSel, nTotal, nUpd, nCb,
                 cbRet, prevExit, snap, solveCalls, bisVars, subVars>>

Next == Update \/ SolveCall \/ SolveUpdate \/ SolveReturn \/ SolveCallback \/ SolveCheck

Spec == Init /\ [][Next]_vars

-----------------------------------------------------------------------------
(* Claims about JFNK::solve and JFNK::update, checked under Spec *)

StopExits == {"callback", "alpha", "nonfinite", "converged"}

\* a stop condition holds for the latest update() of the running solve()
StopHeld ==
  \/ stopCallback /\ cbRet
  \/ alpha = 0
  \/ residual \in {PosInf, NegInf, NaN}
  \/ residual < stopEpsilon

\* C1: solve() calls update() only while the counter is below maxiter and no
\* stop condition (callback set and true, alpha == 0, residual not finite,
\* residual < stopEpsilon) has held after the previous update(); it returns
\* as soon as one holds, and otherwise only when the counter has reached
\* maxiter.
C1_SolveStops ==
  [][ /\ (pc = "loop" /\ pc' = "cb") => (iter < maxiter /\ (nUpd > 0 => ~StopHeld))
      /\ (pc = "loop" /\ iter < maxiter) => pc' = "cb"
      /\ (pc = "chk" /\ StopHeld) => pc' = "idle"
      /\ (pc = "cb" /\ stopCallback /\ cbRet') => pc' = "idle"
      /\ (pc # "idle" /\ pc' = "idle") =>
            \/ nUpd' > 0 /\ StopHeld'
            \/ ~(iter' < maxiter) /\ (nUpd' > 0 => ~StopHeld) ]_vars

C1_Witness == pc = "idle" /\ exit = "alpha" /\ nUpd = 2 /\ iter = 1

ConstSolved ==
  /\ F.base = "const" /\ ~stopCallback /\ maxiter >= 1
  /\ pc = "idle" /\ solveCalls = 1

C4_NaNFailsFiniteness ==
  (nTotal > 0 /\ nanSel /\ alpha # 0)
  => /\ residual \in {PosInf, NegInf, NaN}
     /\ x = xPrev
     /\ ~(pc = "loop" /\ nUpd > 0)

\* C5: after update(), x is unchanged when alpha is zero or the residual is
\* not finite, and otherwise x[i] is the old x[i] - dx[i]*alpha for every i.
C5_UpdateFrame ==
  nTotal > 0
  => x = IF alpha = 0 \/ residual \in {PosInf, NegInf, NaN}
           THEN xPrev
           ELSE [i \in 0 .. (n - 1) |-> xPrev[i] - ((dx[i] * alpha) \div Unit)]

C5_Witness ==
  nTotal > 0 /\ alpha # 0 /\ residual = PosInf /\ x = xPrev /\ dx # [i \in 0 .. (n - 1) |-> 0]

\* C8: with a stop callback set, solve() has invoked it once for every
\* completed update() (so not before the first, and also when alpha == 0 or
\* the residual stops the loop); without one it is never invoked.
C8_CallbackOnce ==
  /\ stopCallback => /\ pc \in {"idle", "loop", "chk"} => nCb = nUpd
                     /\ pc = "cb" => nCb + 1 = nUpd
  /\ ~stopCallback => nCb = 0

C8_Witness ==
  stopCallback /\ pc = "idle" /\ exit = "alpha" /\ alpha = 0 /\ nCb = 2 /\ nUpd = 2

\* C10: iter changes only inside solve(), by +1, and stays in 0..maxiter; a
\* first solve() returns with iter = (number of its update() calls) when the
\* loop ran out and that number minus one when it left through a stop
\* condition; a solve() entered with iter = maxiter makes no update() and
\* changes nothing; a solve() after a stop-condition exit makes at least one.
C10_IterAccounting ==
  [][ /\ iter' >= 0 /\ iter' <= maxiter
      /\ iter' # iter => (pc = "chk" /\ iter' = iter + 1)
      /\ (pc # "idle" /\ pc' = "idle" /\ solveCalls = 1) =>
            /\ exit' = "maxiter" => iter' = nUpd'
            /\ exit' \in StopExits => iter' = nUpd' - 1
      /\ (pc # "idle" /\ pc' = "idle" /\ snap[5] = maxiter) =>
            (nUpd' = 0 /\ <<x', dx', residual', alpha', iter'>> = snap)
      /\ (pc # "idle" /\ pc' = "idle" /\ prevExit \in StopExits) => nUpd' >= 1 ]_vars

C10_Witness ==
  /\ pc = "idle" /\ solveCalls = 2 /\ prevExit = "maxiter" /\ exit = "maxiter"
  /\ maxiter = 2 /\ snap[5] = 2 /\ nUpd = 0 /\ nTotal = 2

-----------------------------------------------------------------------------
(* lineSearch_bisect on its own, one pass of its loop at a time.  The line  *)
(* shows one residual per alpha (rho remembers those seen); residualAtAlpha *)
(* never returns a NaN.                                                     *)

ResidualValues == {0, 4, 9, RealMax, PosInf}

EmptyLine == [al \in {} |-> 0]

InitBisect ==
  /\ maxAlpha \in {0, Unit, 2 * Unit}
  /\ lineSearchMaxIter \in 0 .. MaxLineSearchIter
  /\ pc = "b_start"
  /\ br = BisectStart(maxAlpha, 0, 0)
  /\ bi = 0
  /\ rho = EmptyLine
  /\ seen = {}
  /\ residual = 0
  /\ alpha = 0
  /\ n = Dummy /\ F = Dummy /\ solver = Dummy /\ lineSearch = Dummy
  /\ stopEpsilon = Dummy /\ maxiter = Dummy /\ stopCallback = Dummy
  /\ x = Dummy /\ dx = Dummy /\ iter = Dummy
  /\ xPrev = Dummy /\ nanSel = Dummy /\ nTotal = Dummy /\ nUpd = Dummy /\ nCb = Dummy
  /\ cbRet = Dummy /\ exit = Dummy /\ prevExit = Dummy /\ snap = Dummy
  /\ solveCalls = Dummy
  /\ m = Dummy /\ a = Dummy /\ b = Dummy

\* the residual the line shows at al: the one already seen there, or a new one
Shown(line, al) == IF al \in DOMAIN line THEN {line[al]} ELSE ResidualValues

\* the four declarations before the loop
BisectBegin ==
  /\ pc = "b_start"
  /\ \E rL \in ResidualValues :
       \E rR \in Shown((0 :> rL), maxAlpha) :
         /\ br' = BisectStart(maxAlpha, rL, rR)
         /\ rho' = (0 :> rL) @@ (maxAlpha :> rR)
         /\ seen' = {rL, rR}
  /\ bi' = 0
  /\ pc' = "b_loop"
  /\ UNCHANGED <<cfgVars, fldVars, obsVars, subVars>>

\* one pass of the loop (which may break)
BisectIterate ==
  /\ pc = "b_loop"
  /\ bi < lineSearchMaxIter
  /\ ~br.brk
  /\ \E residualMid \in Shown(rho, AlphaMid(br)) :
       LET nb == BisectStep(br, residualMid)
       IN /\ br' = nb
          /\ rho' = rho @@ (AlphaMid(br) :> residualMid)
          /\ seen' = seen \cup {nb.residualL, nb.residualR}
  /\ bi' = bi + 1
  /\ UNCHANGED <<cfgVars, fldVars, pc, obsVars, subVars>>

\* the loop is left: residual is recorded and alpha returned
BisectFinish ==
  /\ pc = "b_loop"
  /\ ~(bi < lineSearchMaxIter /\ ~br.brk)
  /\ residual' = BisectReturn(br).residual
  /\ alpha' = BisectReturn(br).alpha
  /\ pc' = "b_done"
  /\ UNCHANGED <<cfgVars, x, dx, iter, obsVars, bisVars, subVars>>

NextBisect == BisectBegin \/ BisectIterate \/ BisectFinish

SpecBisect == InitBisect /\ [][NextBisect]_vars

\* the returned alpha lies in [0, maxAlpha]
BisectAlphaInRange == pc = "b_done" => (0 <= alpha /\ alpha <= maxAlpha)

\* C6 as stated: lineSearch_bisect returns 0 <= alpha <= maxAlpha, and the
\* residual it records is <= every bracket-endpoint residual held at any
\* point of the search.
C6_BisectInvariant ==
  pc = "b_done" => /\ 0 <= alpha /\ alpha <= maxAlpha
                   /\ \A r \in seen : residual <= r

-----------------------------------------------------------------------------
(* DenseInverse::backSubstituteUpperTriangular.  Matrix and vectors hold    *)
(* fixed-point numbers or IEEE specials; arithmetic on them follows IEEE    *)
(* 754 (signed zeros are not told apart).                                   *)

Sign(v) == IF v < 0 THEN -1 ELSE 1
InfOf(sg) == IF sg < 0 THEN NegInf ELSE PosInf

XAdd(p, q) ==
  IF IsNaN(p) \/ IsNaN(q) THEN NaN
  ELSE IF IsInf(p) /\ IsInf(q) THEN (IF p = q THEN p ELSE NaN)
  ELSE IF IsInf(p) THEN p
  ELSE IF IsInf(q) THEN q
  ELSE p + q

XNeg(p) == IF IsNaN(p) THEN NaN ELSE -p

XSub(p, q) == XAdd(p, XNeg(q))

XMul(p, q) ==
  IF IsNaN(p) \/ IsNaN(q) THEN NaN
  ELSE IF IsInf(p) \/ IsInf(q)
    THEN (IF p = 0 \/ q = 0 THEN NaN ELSE InfOf(Sign(p) * Sign(q)))
  ELSE Mul(p, q)

\* finite quotients are exact in the model: every finite divisor is +-Unit
XDiv(p, q) ==
  IF IsNaN(p) \/ IsNaN(q) THEN NaN
  ELSE IF IsInf(p) THEN (IF IsInf(q) THEN NaN ELSE InfOf(Sign(p) * Sign(q)))
  ELSE IF IsInf(q) THEN 0
  ELSE IF q = 0 THEN (IF p = 0 THEN NaN ELSE InfOf(Sign(p)))
  ELSE (p * Unit) \div q

\* BackIndex with rows and columns swapped
BackIndex_swapped(mm, i, j) == j + mm * i

\* the offset of element (i, j): a[i+m*j]
BackIndex(mm, i, j) == i + mm * j

\* for (int j = i+1; j < n; ++j) sum += a[i+m*j] * x[j];
RECURSIVE BackSum(_, _, _, _, _, _, _)
BackSum(mm, k, av, xv, i, j, sum) ==
  IF j < k
    THEN BackSum(mm, k, av, xv, i, j + 1, XAdd(sum, XMul(av[BackIndex(mm, i, j)], xv[j])))
    ELSE sum

\* for (int i = n-1; i >= 0; --i) x[i] = (b[i] - sum) / a[i+m*i];
RECURSIVE BackLoop(_, _, _, _, _, _)
BackLoop(mm, k, av, bv, xv, i) ==
  IF i >= 0
    THEN BackLoop(mm, k, av, bv,
                  [xv EXCEPT ![i] = XDiv(XSub(bv[i], BackSum(mm, k, av, xv, i, i + 1, 0)),
                                         av[BackIndex(mm, i, i)])],
                  i - 1)
    ELSE xv

backSubstituteUpperTriangular(mm, k, xv, av, bv) == BackLoop(mm, k, av, bv, xv, k - 1)

\* an m x n column-major matrix with 1 on the diagonal, 0 above it and g below
UnitUpper(mm, k, g) ==
  [o \in Idx(mm * k) |->
     LET i == o % mm
         j == o \div mm
     IN IF i = j THEN Unit ELSE IF i < j THEN 0 ELSE g]

RhsValues == {-2 * Unit, 0, 3 * Unit, PosInf, NaN}

InitBackSub ==
  /\ m \in 1 .. MaxM
  /\ n \in 1 .. m
  /\ a \in {UnitUpper(m, n, g) : g \in {0, 5 * Unit}}
  /\ b \in [Idx(m) -> RhsValues]
  /\ x = [i \in Idx(n) |-> 7 * Unit]
  /\ snap = <<a, b>>
  /\ pc = "s_call"
  /\ F = Dummy /\ solver = Dummy /\ lineSearch = Dummy /\ maxAlpha = Dummy
  /\ lineSearchMaxIter = Dummy /\ stopEpsilon = Dummy /\ maxiter = Dummy
  /\ stopCallback = Dummy
  /\ dx = Dummy /\ residual = Dummy /\ alpha = Dummy /\ iter = Dummy
  /\ xPrev = Dummy /\ nanSel = Dummy /\ nTotal = Dummy /\ nUpd = Dummy /\ nCb = Dummy
  /\ cbRet = Dummy /\ exit = Dummy /\ prevExit = Dummy /\ solveCalls = Dummy
  /\ br = Dummy /\ bi = Dummy /\ rho = Dummy /\ seen = Dummy

BackSubstitute ==
  /\ pc = "s_call"
  /\ m >= n
  /\ x' = backSubstituteUpperTriangular(m, n, x, a, b)
  /\ pc' = "s_done"
  /\ UNCHANGED <<cfgVars, dx, residual, alpha, iter, obsVars, bisVars, subVars>>

NextBackSub == BackSubstitute

SpecBackSub == InitBackSub /\ [][NextBackSub]_vars

\* C9 as stated: on the unit upper-triangular matrix, for every right-hand
\* side b, x[i] = b[i] for every i in 0..n-1, and a and b are unmodified.
C9_Original ==
  pc = "s_done" => /\ \A i \in 0 .. (n - 1) : x[i] = b[i]
                   /\ <<a, b>> = snap

\* C9 amended: that holds for every right-hand side whose entries
\* b[0..n-1] are all finite.
C9_BackSubIdentity ==
  (pc = "s_done" /\ \A i \in 0 .. (n - 1) : b[i] \notin {PosInf, NegInf, NaN})
  => /\ \A i \in 0 .. (n - 1) : x[i] = b[i]
     /\ <<a, b>> = snap

C9_Witness ==
  /\ pc = "s_done" /\ n = 2 /\ m = 3 /\ a[2] # 0
  /\ b[0] = 3 * Unit /\ b[1] = -2 * Unit
  /\ x[0] = 3 * Unit /\ x[1] = -2 * Unit

====
